---- MODULE Spec2Model ----
(***************************************************************************)
(* A model of github_stats.py: the summary query, the cursor-following     *)
(* repository listing, the thread-pool fan-out of get_commit_stats over    *)
(* the listed repositories, and the fold of the per-repository results     *)
(* into the report's totals.                                               *)
(*                                                                         *)
(* JSON objects are records (functions from keys); a key that is absent    *)
(* from the response is absent from the record's DOMAIN, and dict.get is   *)
(* the operator Get.  A JSON null in the place of an object is Null.       *)
(* Python's None for a date is the integer None (instants are >= 1) and    *)
(* for a cursor the string NullCursor.                                     *)
(***************************************************************************)
EXTENDS Integers, Sequences, FiniteSets, TLC

(***************************************************************************)
(* Bounds of the remote stub.                                              *)
(***************************************************************************)
MaxListPages == 2       \* requests answered by one listing chain
MaxRepos == 2           \* repositories the stub lists in a run
MaxCommitPages == 2     \* requests answered by one commit-history chain
ExtraRepos == 1         \* repositories beyond the pool size, pool profile

(***************************************************************************)
(* Program constants.                                                      *)
(***************************************************************************)
max_workers == 10
TopLanguages == 7
None == 0

(***************************************************************************)
(* JSON values.                                                            *)
(***************************************************************************)
Empty == <<>>
Null == [null |-> TRUE]
NullCursor == "null"

IsNull(v) == DOMAIN v = {"null"}

Get(d, k, default) == IF k \in DOMAIN d THEN d[k] ELSE default

IsError(resp) == "error" \in DOMAIN resp

Raised(r) == "raise" \in DOMAIN r

(***************************************************************************)
(* datetime.fromisoformat(s.replace("Z", "+00:00")): the instant of an     *)
(* ISO-8601 string, in days since 2022-12-31; None stands for ValueError.  *)
(***************************************************************************)
fromisoformat(s) ==
    CASE s = "2023-01-01T00:00:00Z" -> 1
      [] s = "2023-01-01T02:00:00+02:00" -> 1
      [] s = "2023-03-01T00:00:00Z" -> 60
      [] s = "2023-06-01T00:00:00Z" -> 152
      [] OTHER -> None

(***************************************************************************)
(* The remote: what one round trip of graphql_request can bring back.  A   *)
(* response is either [error, status] (the exception graphql_request       *)
(* raises) or [json] (the decoded body).  The profile e names the stub     *)
(* the run talks to: "run" serves listing pages of one repository and      *)
(* commit pages of one commit, "list" every shape of listing page, "commits"*)
(* one repository and every shape of commit page, "pool" one listing page  *)
(* of more repositories than the pool has workers.                         *)
(***************************************************************************)
HTTPError(status) == [error |-> "HTTPError", status |-> status]
ConnectionError == [error |-> "ConnectionError", status |-> 0]

Cursor == "Y3Vyc29yOjEwMA"

RepoA ==
    [name |-> "alpha", owner |-> [login |-> "octo"],
     stargazerCount |-> 7, forkCount |-> 1,
     languages |-> [edges |-> <<[size |-> 300,
                                 node |-> [name |-> "Python", color |-> "#3572A5"]]>>]]
RepoB ==
    [name |-> "beta", owner |-> [login |-> "octo"],
     stargazerCount |-> 7, forkCount |-> 0,
     languages |-> [edges |-> <<[size |-> 100, node |-> [name |-> "Go"]],
                                [size |-> 100, node |-> [name |-> "Python", color |-> "blue"]]>>]]
RepoC ==
    [name |-> "gamma", owner |-> [login |-> "octo"],
     stargazerCount |-> 2, forkCount |-> 0,
     languages |-> [edges |-> <<[size |-> 0, node |-> Null],
                                [size |-> 0, node |-> [name |-> "Shell", color |-> "#89e051"]]>>]]

SeqsUpTo(S, n) == UNION {[1..k -> S] : k \in 0..n}

UserJson(user) == [json |-> [data |-> [user |-> user]]]

SummaryResponses ==
    { HTTPError(401), HTTPError(502), ConnectionError,
      UserJson([id |-> "U_kgDOB", createdAt |-> "2023-01-01T00:00:00Z"]),
      UserJson(Null),
      UserJson(Empty),
      [json |-> Empty] }

MorePage == [endCursor |-> Cursor, hasNextPage |-> TRUE]
LastPage == [endCursor |-> NullCursor, hasNextPage |-> FALSE]
MoreNullCursor == [endCursor |-> NullCursor, hasNextPage |-> TRUE]
MoreNoCursor == [hasNextPage |-> TRUE]
NoHasNextPage == [endCursor |-> Cursor]

PageInfos(rich, last) ==
    {LastPage}
      \cup (IF last THEN {} ELSE {MorePage})
      \cup (IF rich THEN {NoHasNextPage} ELSE {})
      \cup (IF rich /\ ~last THEN {MoreNullCursor, MoreNoCursor} ELSE {})

RepoPage(nodes, pageInfo) ==
    UserJson([repositories |-> [nodes |-> nodes, pageInfo |-> pageInfo]])

ListResponses(e, room, last) ==
    CASE e = "run" ->
            {HTTPError(401), ConnectionError}
              \cup {RepoPage(b, p) :
                       b \in SeqsUpTo({RepoA, RepoB}, IF room > 0 THEN 1 ELSE 0),
                       p \in PageInfos(FALSE, last)}
      [] e = "fair" ->
            {ConnectionError}
              \cup {RepoPage(b, p) :
                       b \in {IF room > 0 THEN <<RepoA>> ELSE <<>>},
                       p \in PageInfos(FALSE, last)}
      [] e = "list" ->
            {HTTPError(401), HTTPError(502), ConnectionError}
              \cup {RepoPage(b, p) : b \in SeqsUpTo({RepoA, RepoC}, room),
                                     p \in PageInfos(TRUE, last)}
              \cup {UserJson([repositories |-> [nodes |-> b]]) :
                       b \in SeqsUpTo({RepoA}, IF room > 0 THEN 1 ELSE 0)}
              \cup {UserJson([repositories |-> [pageInfo |-> p]]) :
                       p \in PageInfos(FALSE, last)}
              \cup {UserJson([repositories |-> Empty]), UserJson(Empty),
                    UserJson(Null), [json |-> [data |-> Empty]], [json |-> Empty]}
      [] e = "commits" ->
            {RepoPage(<<RepoA>>, LastPage)}
      [] e = "pool" ->
            {RepoPage([i \in 1..(max_workers + ExtraRepos) |-> RepoA], LastPage)}

(***************************************************************************)
(* State.                                                                  *)
(***************************************************************************)
VARIABLES
    pc,             \* where main() is
    diagnosis,      \* what main() printed on its way out of the except clauses
    summary,        \* the response to the summary request, Null before it
    author_id,      \* summary_stats["id"]
    lister,         \* get_all_repositories: repos, cursor, has_next_page
    listLog,        \* the listing requests made: cursor sent, response received
    tally,          \* language_stats, total_lang_size, most_popular_repo
    tasks,          \* one get_commit_stats call per work item of executor.map
    totals,         \* main's accumulators and the position of its result loop
    report,         \* the panels main() printed
    overtaken,      \* whether a call has returned before one submitted earlier
    foldOrder       \* the work items whose result main() has folded, in order

vars == <<pc, diagnosis, summary, author_id, lister, listLog, tally, tasks, totals, report,
          overtaken, foldOrder>>

NoneStr == "None"

(***************************************************************************)
(* main(), lines 295-300: the two except clauses.                          *)
(***************************************************************************)
Handler(exc) ==
    IF exc.raise = "HTTPError"
    THEN IF exc.status = 401 THEN "http-401" ELSE "http"
    ELSE "unexpected"

Raise(name) == [raise |-> name, status |-> 0]

(***************************************************************************)
(* get_user_summary_stats and main(), lines 193-197.                       *)
(***************************************************************************)
get_user_summary_stats(resp) ==
    IF IsError(resp) THEN [raise |-> resp.error, status |-> resp.status]
    ELSE LET data == Get(resp.json, "data", Empty)
             user_data == Get(data, "user", Empty)
         IN  IF IsNull(user_data) THEN Raise("AttributeError")
             ELSE [id |-> Get(user_data, "id", NoneStr),
                   createdAt |-> Get(user_data, "createdAt", NoneStr)]

SummaryStep(resp) ==
    LET summary_stats == get_user_summary_stats(resp)
    IN  IF Raised(summary_stats) THEN summary_stats
        ELSE IF summary_stats.createdAt = NoneStr THEN Raise("AttributeError")
        ELSE IF fromisoformat(summary_stats.createdAt) = None THEN Raise("ValueError")
        ELSE summary_stats

(***************************************************************************)
(* get_all_repositories: one turn of its while loop on the response resp.  *)
(***************************************************************************)
\* ListIter with each page's nodes put in front of the earlier pages' nodes
ListIter_NewestFirst(l, resp) ==
    IF IsError(resp) THEN [raise |-> resp.error, status |-> resp.status]
    ELSE LET data == Get(resp.json, "data", Empty)
             user == Get(data, "user", Empty)
         IN  IF IsNull(user) THEN Raise("AttributeError")
             ELSE LET repo_data == Get(user, "repositories", Empty)
                      page_info == Get(repo_data, "pageInfo", Empty)
                  IN  [repos |-> Get(repo_data, "nodes", <<>>) \o l.repos,
                       cursor |-> Get(page_info, "endCursor", NullCursor),
                       has_next_page |-> Get(page_info, "hasNextPage", FALSE)]

\* ListIter with a failed request handled as get_commit_stats handles it
ListIter_Absorbing(l, resp) ==
    IF IsError(resp) THEN [l EXCEPT !.has_next_page = FALSE]
    ELSE LET data == Get(resp.json, "data", Empty)
             user == Get(data, "user", Empty)
         IN  IF IsNull(user) THEN Raise("AttributeError")
             ELSE LET repo_data == Get(user, "repositories", Empty)
                      page_info == Get(repo_data, "pageInfo", Empty)
                  IN  [repos |-> l.repos \o Get(repo_data, "nodes", <<>>),
                       cursor |-> Get(page_info, "endCursor", NullCursor),
                       has_next_page |-> Get(page_info, "hasNextPage", FALSE)]

ListIter(l, resp) ==
    IF IsError(resp) THEN [raise |-> resp.error, status |-> resp.status]
    ELSE LET data == Get(resp.json, "data", Empty)
             user == Get(data, "user", Empty)
         IN  IF IsNull(user) THEN Raise("AttributeError")
             ELSE LET repo_data == Get(user, "repositories", Empty)
                      page_info == Get(repo_data, "pageInfo", Empty)
                  IN  [repos |-> l.repos \o Get(repo_data, "nodes", <<>>),
                       cursor |-> Get(page_info, "endCursor", NullCursor),
                       has_next_page |-> Get(page_info, "hasNextPage", FALSE)]

(***************************************************************************)
(* main(), lines 219-233: the language tally.  language_stats is a dict,   *)
(* kept here as the sequence of its items in insertion order.              *)
(***************************************************************************)
Falsy(obj) == IsNull(obj) \/ DOMAIN obj = {}

IndexOf(stats, lang_name) ==
    IF \E i \in 1..Len(stats) : stats[i].name = lang_name
    THEN CHOOSE i \in 1..Len(stats) : stats[i].name = lang_name
    ELSE 0

AddEdge(t, lang_edge) ==
    LET node == lang_edge.node
    IN  IF Falsy(node) THEN t
        ELSE LET lang_name == node.name
                 lang_color == Get(node, "color", "white")
                 lang_size == lang_edge.size
                 i == IndexOf(t.language_stats, lang_name)
             IN  [language_stats |->
                      IF i > 0
                      THEN [t.language_stats EXCEPT ![i].size = @ + lang_size]
                      ELSE Append(t.language_stats,
                                  [name |-> lang_name, size |-> lang_size,
                                   color |-> lang_color]),
                  total_lang_size |-> t.total_lang_size + lang_size]

RECURSIVE AddEdges(_, _)
AddEdges(t, edges) ==
    IF edges = <<>> THEN t ELSE AddEdges(AddEdge(t, Head(edges)), Tail(edges))

RECURSIVE LanguageTally(_, _)
LanguageTally(t, repositories) ==
    IF repositories = <<>> THEN t
    ELSE LET repo == Head(repositories)
         IN  IF Falsy(repo) \/ Falsy(Get(repo, "languages", Null))
             THEN LanguageTally(t, Tail(repositories))
             ELSE LanguageTally(AddEdges(t, repo.languages.edges), Tail(repositories))

(***************************************************************************)
(* main(), line 235: max(repositories, key=stargazerCount), the first of   *)
(* the maxima, or None for an empty list.                                  *)
(***************************************************************************)
\* MaxByStars with a later repository taking the place of an equal earlier one
MaxByStars_LastWins(best, rest) ==
    LET scan[k \in 0..Len(rest)] ==
            IF k = 0 THEN best
            ELSE IF rest[k].stargazerCount >= scan[k - 1].stargazerCount
                 THEN rest[k] ELSE scan[k - 1]
    IN  scan[Len(rest)]

\* max(iterable, key): the item held is replaced only by one with a greater key
MaxByStars(best, rest) ==
    LET scan[k \in 0..Len(rest)] ==
            IF k = 0 THEN best
            ELSE IF rest[k].stargazerCount > scan[k - 1].stargazerCount
                 THEN rest[k] ELSE scan[k - 1]
    IN  scan[Len(rest)]

MostPopular(repositories) ==
    IF repositories = <<>> THEN Null
    ELSE MaxByStars(Head(repositories), Tail(repositories))

(***************************************************************************)
(* main(), lines 237-244: the accumulators, and executor.map, which        *)
(* submits one get_commit_stats work item per repository, in order.        *)
(***************************************************************************)
NoTotals ==
    [total_additions |-> 0, total_deletions |-> 0, total_commits |-> 0,
     first_commit_date |-> None, latest_commit_date |-> None, folded |-> 0]

WorkItem(owner, name) ==
    [state |-> "queued", owner |-> owner, name |-> name,
     total_additions |-> 0, total_deletions |-> 0, total_commits |-> 0,
     earliest_date |-> None, latest_date |-> None,
     cursor |-> NullCursor, has_next_page |-> TRUE, log |-> <<>>, calls |-> 0,
     summed |-> 0, dated |-> 0]

Submit(repositories) ==
    [i \in 1..Len(repositories) |->
        WorkItem(repositories[i].owner.login, repositories[i].name)]

PrepareStep(repositories) ==
    IF \E i \in 1..Len(repositories) : IsNull(repositories[i])
    THEN Raise("TypeError")
    ELSE [tally |->
              [stats |-> LanguageTally([language_stats |-> <<>>, total_lang_size |-> 0],
                                       repositories),
               most_popular_repo |-> MostPopular(repositories)],
          tasks |-> Submit(repositories)]

(***************************************************************************)
(* The commit-history responses of the remote.                             *)
(***************************************************************************)
CommitJan == [additions |-> 50, deletions |-> 10, committedDate |-> "2023-01-01T00:00:00Z"]
CommitMar == [additions |-> 20, deletions |-> 5, committedDate |-> "2023-03-01T00:00:00Z"]
CommitJun == [additions |-> 3, deletions |-> 0, committedDate |-> "2023-06-01T00:00:00Z"]
CommitNoDate == [additions |-> 4, deletions |-> 1]
CommitBadDate == [additions |-> 6, deletions |-> 2, committedDate |-> "yesterday"]

RepositoryJson(repository) == [json |-> [data |-> [repository |-> repository]]]

HistoryPage(nodes, pageInfo) ==
    RepositoryJson([defaultBranchRef |->
        [target |-> [history |-> [nodes |-> nodes, pageInfo |-> pageInfo]]]])

NoRepository == RepositoryJson(Null)
NoDefaultBranch == RepositoryJson([defaultBranchRef |-> Null])
NoTarget == RepositoryJson([defaultBranchRef |-> [target |-> Null]])
NoHistory == RepositoryJson([defaultBranchRef |-> [target |-> [oid |-> "9fceb02"]]])

CommitResponses(e, last) ==
    CASE e = "run" ->
            {HTTPError(403), HistoryPage(<<CommitMar>>, LastPage),
             HistoryPage(<<CommitJun>>, LastPage)}
              \cup (IF last THEN {} ELSE {HistoryPage(<<CommitJan>>, MorePage)})
      [] e = "fair" ->
            {ConnectionError, HistoryPage(<<CommitMar>>, LastPage)}
              \cup (IF last THEN {} ELSE {HistoryPage(<<CommitJan>>, MorePage)})
      [] e = "list" ->
            {HTTPError(403), NoRepository, NoHistory}
      [] e = "commits" ->
            {HTTPError(403), ConnectionError, [json |-> Empty],
             NoRepository, NoDefaultBranch, NoTarget, NoHistory}
              \cup {HistoryPage(b, p) :
                       b \in SeqsUpTo({CommitJan, CommitMar, CommitNoDate, CommitBadDate}, 2),
                       p \in PageInfos(TRUE, last)}
              \cup {RepositoryJson([defaultBranchRef |-> [target |-> [history |->
                       [pageInfo |-> LastPage]]]])}
      [] e = "pool" ->
            {NoRepository}

(***************************************************************************)
(* get_commit_stats, lines 158-166: the loop over one page's commits.  A   *)
(* commit without a parseable committedDate raises after its additions     *)
(* and deletions were added.                                               *)
(***************************************************************************)
\* CommitStep with latest_date taken from each commit as it comes
CommitStep_LatestLast(w, commit) ==
    LET added == [w EXCEPT !.total_additions = @ + Get(commit, "additions", 0),
                           !.total_deletions = @ + Get(commit, "deletions", 0),
                           !.summed = @ + 1]
        commit_date == IF "committedDate" \in DOMAIN commit
                       THEN fromisoformat(commit.committedDate)
                       ELSE None
    IN  IF commit_date = None THEN [w |-> added, raised |-> TRUE]
        ELSE [w |-> [added EXCEPT
                       !.earliest_date =
                           IF @ = None \/ commit_date < @ THEN commit_date ELSE @,
                       !.latest_date = commit_date,
                       !.dated = @ + 1],
              raised |-> FALSE]

\* summed and dated count the commits whose additions and deletions were
\* added (lines 159-160) and whose date was compared (lines 163-166)
CommitStep(w, commit) ==
    LET added == [w EXCEPT !.total_additions = @ + Get(commit, "additions", 0),
                           !.total_deletions = @ + Get(commit, "deletions", 0),
                           !.summed = @ + 1]
        commit_date == IF "committedDate" \in DOMAIN commit
                       THEN fromisoformat(commit.committedDate)
                       ELSE None
    IN  IF commit_date = None THEN [w |-> added, raised |-> TRUE]
        ELSE [w |-> [added EXCEPT
                       !.earliest_date =
                           IF @ = None \/ commit_date < @ THEN commit_date ELSE @,
                       !.latest_date =
                           IF @ = None \/ commit_date > @ THEN commit_date ELSE @,
                       !.dated = @ + 1],
              raised |-> FALSE]

RECURSIVE FoldCommits(_, _)
FoldCommits(w, commits) ==
    IF commits = <<>> THEN [w |-> w, raised |-> FALSE]
    ELSE LET r == CommitStep(w, Head(commits))
         IN  IF r.raised THEN r ELSE FoldCommits(r.w, Tail(commits))

(***************************************************************************)
(* get_commit_stats: one turn of its while loop on the response resp, and  *)
(* the return when the loop is left.                                       *)
(***************************************************************************)
\* Except with the exception leaving get_commit_stats
Except_Propagates(w) == [w EXCEPT !.state = "raised"]

Except(w) == [w EXCEPT !.has_next_page = FALSE, !.state = "done"]

\* Break with the loop going on to its next turn instead of being left
Break_Continue(w) == w

Break(w) == [w EXCEPT !.state = "done"]

\* NextPage with the cursor of the request just made kept for the next one
NextPage_KeepCursor(w, page_info) ==
    LET has_next_page == Get(page_info, "hasNextPage", FALSE)
    IN  [w EXCEPT !.has_next_page = has_next_page,
                  !.state = IF has_next_page THEN "running" ELSE "done"]

NextPage(w, page_info) ==
    LET has_next_page == Get(page_info, "hasNextPage", FALSE)
    IN  [w EXCEPT !.cursor = Get(page_info, "endCursor", NullCursor),
                  !.has_next_page = has_next_page,
                  !.state = IF has_next_page THEN "running" ELSE "done"]

CommitIter(w0, resp) ==
    LET w == [w0 EXCEPT !.log = Append(@, [cursor |-> w0.cursor, resp |-> resp])]
    IN  IF IsError(resp) THEN Except(w)
        ELSE LET repo == Get(Get(resp.json, "data", Empty), "repository", Null)
             IN  IF \/ Falsy(repo)
                    \/ Falsy(Get(repo, "defaultBranchRef", Null))
                    \/ Falsy(Get(repo.defaultBranchRef, "target", Null))
                 THEN Break(w)
                 ELSE IF "history" \notin DOMAIN repo.defaultBranchRef.target
                 THEN Except(w)
                 ELSE LET history == repo.defaultBranchRef.target.history
                          commits == Get(history, "nodes", <<>>)
                          counted == [w EXCEPT !.total_commits = @ + Len(commits)]
                          folded == FoldCommits(counted, commits)
                      IN  IF commits = <<>> THEN Break(w)
                          ELSE IF folded.raised THEN Except(folded.w)
                          ELSE NextPage(folded.w, Get(history, "pageInfo", Empty))

Result(w) ==
    <<w.total_additions, w.total_deletions, w.total_commits,
      w.earliest_date, w.latest_date>>

(***************************************************************************)
(* ThreadPoolExecutor(max_workers=10): a worker thread takes the oldest    *)
(* queued work item, and there are at most max_workers worker threads.     *)
(***************************************************************************)
Running(ts) == {i \in DOMAIN ts : ts[i].state = "running"}

\* IdleWorker with one worker thread too many
IdleWorker_OneMore(ts) == Cardinality(Running(ts)) <= max_workers

IdleWorker(ts) == Cardinality(Running(ts)) < max_workers

\* OldestQueued with a work item whose call met an error queued again
OldestQueued_Retry(ts, i) ==
    \/ /\ ts[i].state = "queued"
       /\ \A j \in DOMAIN ts : j < i => ts[j].state # "queued"
    \/ /\ ts[i].state = "done"
       /\ ts[i].calls < 2
       /\ \E k \in DOMAIN ts[i].log : "error" \in DOMAIN ts[i].log[k].resp

OldestQueued(ts, i) ==
    /\ ts[i].state = "queued"
    /\ \A j \in DOMAIN ts : j < i => ts[j].state # "queued"

(***************************************************************************)
(* main(), lines 246-255: one turn of the loop over the results.           *)
(***************************************************************************)
\* FoldStep with the two comparisons of the dates exchanged
FoldStep_Flipped(t, result) ==
    [total_additions |-> t.total_additions + result[1],
     total_deletions |-> t.total_deletions + result[2],
     total_commits |-> t.total_commits + result[3],
     first_commit_date |->
         IF result[4] # None /\ (t.first_commit_date = None
                                   \/ result[4] > t.first_commit_date)
         THEN result[4] ELSE t.first_commit_date,
     latest_commit_date |->
         IF result[5] # None /\ (t.latest_commit_date = None
                                   \/ result[5] < t.latest_commit_date)
         THEN result[5] ELSE t.latest_commit_date,
     folded |-> t.folded + 1]

\* FoldStep with the dates of the latest non-empty result taken as they come
FoldStep_LastWins(t, result) ==
    [total_additions |-> t.total_additions + result[1],
     total_deletions |-> t.total_deletions + result[2],
     total_commits |-> t.total_commits + result[3],
     first_commit_date |-> IF result[4] # None THEN result[4] ELSE t.first_commit_date,
     latest_commit_date |-> IF result[5] # None THEN result[5] ELSE t.latest_commit_date,
     folded |-> t.folded + 1]

FoldStep(t, result) ==
    LET add == result[1]
        dele == result[2]
        com == result[3]
        earliest == result[4]
        latest == result[5]
    IN  [total_additions |-> t.total_additions + add,
         total_deletions |-> t.total_deletions + dele,
         total_commits |-> t.total_commits + com,
         first_commit_date |->
             IF earliest # None /\ (t.first_commit_date = None
                                      \/ earliest < t.first_commit_date)
             THEN earliest ELSE t.first_commit_date,
         latest_commit_date |->
             IF latest # None /\ (t.latest_commit_date = None
                                    \/ latest > t.latest_commit_date)
             THEN latest ELSE t.latest_commit_date,
         folded |-> t.folded + 1]

(***************************************************************************)
(* main(), lines 258-293: the two panels.                                  *)
(***************************************************************************)
RECURSIVE InsertBySize(_, _)
InsertBySize(sorted, item) ==
    IF sorted = <<>> THEN <<item>>
    ELSE IF Head(sorted).size >= item.size
         THEN <<Head(sorted)>> \o InsertBySize(Tail(sorted), item)
         ELSE <<item>> \o sorted

RECURSIVE SortedBySize(_)
SortedBySize(items) ==
    IF items = <<>> THEN <<>>
    ELSE InsertBySize(SortedBySize(SubSeq(items, 1, Len(items) - 1)), items[Len(items)])

\* a / b * 100, in hundredths of a percent as "{percentage:.2f}" prints it;
\* ZeroDivisionError when b is 0
ZeroDivisionError == 0 - 1

Ratio(a, b) ==
    IF b = 0 THEN ZeroDivisionError
    ELSE (2 * a * 10000 + b) \div (2 * b)

\* Percentage without the test of total_lang_size
Percentage_Unguarded(size, total_lang_size) == Ratio(size, total_lang_size)

Percentage(size, total_lang_size) ==
    IF total_lang_size > 0 THEN Ratio(size, total_lang_size) ELSE 0

Report(tl, t) ==
    LET sorted_languages == SortedBySize(tl.stats.language_stats)
        shown == SubSeq(sorted_languages, 1,
                        IF Len(sorted_languages) < TopLanguages
                        THEN Len(sorted_languages) ELSE TopLanguages)
    IN  [languages |-> [i \in 1..Len(shown) |->
                           [name |-> shown[i].name, color |-> shown[i].color,
                            percentage |-> Percentage(shown[i].size,
                                                      tl.stats.total_lang_size)]],
         most_popular_repo |-> tl.most_popular_repo,
         first_commit_date |-> t.first_commit_date,
         latest_commit_date |-> t.latest_commit_date,
         coding_lifespan |->
             IF t.first_commit_date # None /\ t.latest_commit_date # None
             THEN [days |-> t.latest_commit_date - t.first_commit_date]
             ELSE Null,
         total_commits |-> t.total_commits,
         total_additions |-> t.total_additions,
         total_deletions |-> t.total_deletions]

(***************************************************************************)
(* The run.                                                                *)
(***************************************************************************)
Init ==
    /\ pc = "summary"
    /\ diagnosis = "none"
    /\ summary = Null
    /\ author_id = NoneStr
    /\ lister = [repos |-> <<>>, cursor |-> NullCursor, has_next_page |-> TRUE]
    /\ listLog = <<>>
    /\ tally = Null
    /\ tasks = <<>>
    /\ totals = NoTotals
    /\ report = Null
    /\ overtaken = FALSE
    /\ foldOrder = <<>>

\* main(), lines 191-213 and 295-300
FetchSummary ==
    /\ pc = "summary"
    /\ \E resp \in SummaryResponses :
          LET r == SummaryStep(resp)
          IN  /\ summary' = resp
              /\ IF Raised(r)
                 THEN /\ pc' = "failed"
                      /\ diagnosis' = Handler(r)
                      /\ UNCHANGED author_id
                 ELSE /\ pc' = "listing"
                      /\ author_id' = r.id
                      /\ UNCHANGED diagnosis
    /\ UNCHANGED <<lister, listLog, tally, tasks, totals, report, overtaken, foldOrder>>

\* get_all_repositories, one request, and main(), lines 216 and 295-300
ListPage(e) ==
    /\ pc = "listing"
    /\ lister.has_next_page
    /\ \E resp \in ListResponses(e, MaxRepos - Len(lister.repos),
                                 Len(listLog) + 1 >= MaxListPages) :
          LET r == ListIter(lister, resp)
          IN  /\ listLog' = Append(listLog, [cursor |-> lister.cursor, resp |-> resp])
              /\ IF Raised(r)
                 THEN /\ pc' = "failed"
                      /\ diagnosis' = Handler(r)
                      /\ UNCHANGED lister
                 ELSE /\ pc' = IF r.has_next_page THEN "listing" ELSE "prepare"
                      /\ lister' = r
                      /\ UNCHANGED diagnosis
    /\ UNCHANGED <<summary, author_id, tally, tasks, totals, report, overtaken, foldOrder>>

\* main(), lines 217-244
Prepare ==
    /\ pc = "prepare"
    /\ LET r == PrepareStep(lister.repos)
       IN  IF Raised(r)
           THEN /\ pc' = "failed"
                /\ diagnosis' = Handler(r)
                /\ UNCHANGED <<tally, tasks>>
           ELSE /\ pc' = "fanout"
                /\ tally' = r.tally
                /\ tasks' = r.tasks
                /\ UNCHANGED diagnosis
    /\ UNCHANGED <<summary, author_id, lister, listLog, totals, report, overtaken, foldOrder>>

\* a worker thread of the pool calls get_commit_stats for the oldest work item
Start(i) ==
    /\ pc = "fanout"
    /\ OldestQueued(tasks, i)
    /\ IdleWorker(tasks)
    /\ tasks' = [tasks EXCEPT ![i].state = "running", ![i].calls = @ + 1]
    /\ UNCHANGED <<pc, diagnosis, summary, author_id, lister, listLog, tally, totals, report,
                   overtaken, foldOrder>>

\* the call of work item i returns while one submitted before it has not
Overtakes(ts, i) == \E j \in DOMAIN ts : j < i /\ ts[j].state \in {"queued", "running"}

\* FetchCommits with the worker adding what it counted to main's accumulators
FetchCommits_SharedTotals(e, i) ==
    /\ tasks[i].state = "running"
    /\ \E resp \in CommitResponses(e, Len(tasks[i].log) + 1 >= MaxCommitPages) :
          LET w == CommitIter(tasks[i], resp)
          IN  /\ tasks' = [tasks EXCEPT ![i] = w]
              /\ totals' = [totals EXCEPT
                              !.total_additions = @ + w.total_additions
                                                    - tasks[i].total_additions,
                              !.total_deletions = @ + w.total_deletions
                                                    - tasks[i].total_deletions,
                              !.total_commits = @ + w.total_commits
                                                  - tasks[i].total_commits]
              /\ overtaken' = (overtaken \/ (w.state # "running" /\ Overtakes(tasks, i)))
    /\ UNCHANGED <<pc, diagnosis, summary, author_id, lister, listLog, tally, report,
                   foldOrder>>

\* get_commit_stats, one request
FetchCommits(e, i) ==
    /\ tasks[i].state = "running"
    /\ \E resp \in CommitResponses(e, Len(tasks[i].log) + 1 >= MaxCommitPages) :
          LET w == CommitIter(tasks[i], resp)
          IN  /\ tasks' = [tasks EXCEPT ![i] = w]
              /\ overtaken' = (overtaken \/ (w.state # "running" /\ Overtakes(tasks, i)))
    /\ UNCHANGED <<pc, diagnosis, summary, author_id, lister, listLog, tally, totals, report,
                   foldOrder>>

\* NextResult with the result of the last submitted of the returned calls
NextResult_AsCompleted(ts, order) ==
    LET waiting == {k \in DOMAIN ts :
                       /\ ts[k].state = "done"
                       /\ \A j \in DOMAIN order : order[j] # k}
    IN  IF waiting = {} THEN Len(order) + 1
        ELSE CHOOSE k \in waiting : \A j \in waiting : k >= j

\* executor.map, lines 244 and 246: the results come in the order of the
\* submitted calls
NextResult(ts, order) == Len(order) + 1

\* main(), lines 246-255: the next result of executor.map; a call that raised
\* re-raises here
FoldResult ==
    /\ pc = "fanout"
    /\ totals.folded < Len(tasks)
    /\ LET i == NextResult(tasks, foldOrder)
           w == tasks[i]
       IN  /\ w.state \in {"done", "raised"}
           /\ IF w.state = "raised"
              THEN /\ pc' = "failed"
                   /\ diagnosis' = "unexpected"
                   /\ UNCHANGED <<totals, foldOrder>>
              ELSE /\ totals' = FoldStep(totals, Result(w))
                   /\ foldOrder' = Append(foldOrder, i)
                   /\ UNCHANGED <<pc, diagnosis>>
    /\ UNCHANGED <<summary, author_id, lister, listLog, tally, tasks, report, overtaken>>

\* main(), lines 257-293
Finish ==
    /\ pc = "fanout"
    /\ totals.folded = Len(tasks)
    /\ LET r == Report(tally, totals)
       IN  IF \E i \in DOMAIN r.languages : r.languages[i].percentage = ZeroDivisionError
           THEN /\ pc' = "failed"
                /\ diagnosis' = "unexpected"
                /\ UNCHANGED report
           ELSE /\ pc' = "done"
                /\ report' = r
                /\ UNCHANGED diagnosis
    /\ UNCHANGED <<summary, author_id, lister, listLog, tally, tasks, totals,
                   overtaken, foldOrder>>

Run(e) ==
    \/ FetchSummary
    \/ ListPage(e)
    \/ Prepare
    \/ \E i \in DOMAIN tasks : Start(i)
    \/ \E i \in DOMAIN tasks : FetchCommits(e, i)
    \/ FoldResult
    \/ Finish

Next == Run("run")
Spec == Init /\ [][Next]_vars

\* every request returns or fails and every thread that can run does
NextFair == Run("fair")
FairSpec == Init /\ [][NextFair]_vars /\ WF_vars(NextFair)

NextList == Run("list")
SpecList == Init /\ [][NextList]_vars

NextCommits == Run("commits")
SpecCommits == Init /\ [][NextCommits]_vars

NextPool == Run("pool")
SpecPool == Init /\ [][NextPool]_vars

(***************************************************************************)
(* What a response says, read off the response itself.                     *)
(***************************************************************************)
At(obj, k) == IF k \in DOMAIN obj THEN obj[k] ELSE Empty

ListBody(resp) ==
    IF IsError(resp) THEN Empty
    ELSE At(At(At(resp.json, "data"), "user"), "repositories")

HistoryBody(resp) ==
    IF IsError(resp) THEN Empty
    ELSE At(At(At(At(At(resp.json, "data"), "repository"),
                  "defaultBranchRef"), "target"), "history")

ReportsMore(body) ==
    LET pageInfo == At(body, "pageInfo")
    IN  "hasNextPage" \in DOMAIN pageInfo /\ pageInfo.hasNextPage

PageNodes(body) == IF "nodes" \in DOMAIN body THEN body.nodes ELSE <<>>

RECURSIVE ConcatNodes(_)
ConcatNodes(log) ==
    IF log = <<>> THEN <<>>
    ELSE ConcatNodes(SubSeq(log, 1, Len(log) - 1))
           \o PageNodes(ListBody(log[Len(log)].resp))

HasDate(commit) ==
    "committedDate" \in DOMAIN commit /\ fromisoformat(commit.committedDate) # None

\* a commit-history fetch that failed: a transport or permission error, or a
\* body that cannot be interpreted
FetchFailed(resp) ==
    \/ IsError(resp)
    \/ resp = NoHistory
    \/ \E k \in DOMAIN PageNodes(HistoryBody(resp)) :
          ~HasDate(PageNodes(HistoryBody(resp))[k])

Identity == <<0, 0, 0, None, None>>

Returned(w) == w.state = "done"

(***************************************************************************)
(* C1: whenever a page fetch inside get_commit_stats fails, on the first   *)
(* page or on a later one, the call returns the all-zero identity          *)
(* aggregate (0, 0, 0, None, None).                                        *)
(***************************************************************************)
C1_FailureReturnsIdentity ==
    \A i \in DOMAIN tasks :
        (Returned(tasks[i]) /\ \E k \in DOMAIN tasks[i].log :
                                   FetchFailed(tasks[i].log[k].resp))
            => Result(tasks[i]) = Identity

(***************************************************************************)
(* C2: when exactly one listed repository's commit aggregation meets a     *)
(* transport error, at any page, the run completes without raising and     *)
(* the total commit count is the sum of the other repositories' counts.    *)
(***************************************************************************)
TransportError(w) == \E k \in DOMAIN w.log : IsError(w.log[k].resp)

RECURSIVE SumCommitsExcept(_, _, _)
SumCommitsExcept(ts, n, k) ==
    IF n = 0 THEN 0
    ELSE SumCommitsExcept(ts, n - 1, k) + (IF n = k THEN 0 ELSE Result(ts[n])[3])

C2_PartialFailureIsolation ==
    \A k \in DOMAIN tasks :
        (TransportError(tasks[k])
           /\ \A i \in DOMAIN tasks : i # k => ~TransportError(tasks[i]))
            => /\ pc # "failed"
               /\ pc = "done" =>
                     report.total_commits = SumCommitsExcept(tasks, Len(tasks), k)

(***************************************************************************)
(* C3: in both pagination loops every request after the first carries a    *)
(* non-null cursor.                                                        *)
(***************************************************************************)
C3_NoNullCursorAfterFirst ==
    /\ \A k \in 2..Len(listLog) : listLog[k].cursor # NullCursor
    /\ \A i \in DOMAIN tasks :
          \A k \in 2..Len(tasks[i].log) : tasks[i].log[k].cursor # NullCursor

(***************************************************************************)
(* C4: get_all_repositories makes one request per page of the chain: each  *)
(* page it requested but the last reported hasNextPage = true, it stops    *)
(* at the page that did not, and what it holds is the concatenation of     *)
(* the pages' nodes in page order.                                         *)
(***************************************************************************)
ListingReturned == pc \in {"prepare", "fanout", "done"}

C4_ListingConsumesChain ==
    /\ \A k \in 1..(Len(listLog) - 1) : ReportsMore(ListBody(listLog[k].resp))
    /\ (pc = "listing" /\ listLog # <<>>) =>
          ReportsMore(ListBody(listLog[Len(listLog)].resp))
    /\ ListingReturned =>
          /\ listLog # <<>>
          /\ ~ReportsMore(ListBody(listLog[Len(listLog)].resp))
    /\ (pc = "listing" \/ ListingReturned) => lister.repos = ConcatNodes(listLog)

C4_Witness ==
    /\ pc = "done"
    /\ Len(listLog) = 2
    /\ PageNodes(ListBody(listLog[1].resp)) = <<RepoA>>
    /\ PageNodes(ListBody(listLog[2].resp)) = <<RepoC>>

(***************************************************************************)
(* C5: the fan-out calls get_commit_stats exactly once for every listed    *)
(* descriptor, in no case twice, and a failure inside one call neither     *)
(* fails the run nor keeps another call from going on.                     *)
(***************************************************************************)
C5_EveryDescriptorOnce ==
    /\ pc \in {"fanout", "done"} =>
          /\ Len(tasks) = Len(lister.repos)
          /\ \A i \in DOMAIN tasks :
                /\ tasks[i].owner = lister.repos[i].owner.login
                /\ tasks[i].name = lister.repos[i].name
                /\ tasks[i].state \in {"queued", "running", "done"}
                /\ tasks[i].calls = IF tasks[i].state = "queued" THEN 0 ELSE 1
    /\ pc = "fanout" =>
          \A i \in DOMAIN tasks :
              /\ tasks[i].state = "running" => ENABLED FetchCommits("run", i)
              /\ (/\ tasks[i].state = "queued"
                  /\ \A j \in 1..(i - 1) : tasks[j].state # "queued"
                  /\ Cardinality(Running(tasks)) < 10) => ENABLED Start(i)
    /\ pc = "done" => \A i \in DOMAIN tasks : Returned(tasks[i]) /\ tasks[i].calls = 1
    /\ pc = "failed" => tasks = <<>>

C5_Witness ==
    /\ pc = "done"
    /\ Len(tasks) = 2
    /\ TransportError(tasks[1])
    /\ tasks[2].total_commits > 0

(***************************************************************************)
(* C6: at most 10 get_commit_stats calls are in flight at any time.        *)
(***************************************************************************)
C6_AtMostTenInFlight == Cardinality(Running(tasks)) <= 10

C6_Witness ==
    /\ Cardinality(Running(tasks)) = 10
    /\ \E i \in DOMAIN tasks : tasks[i].state = "queued"

(***************************************************************************)
(* C7: the totals do not depend on the order of the fold: folding the      *)
(* results taken so far in any permutation, or folding any two groups of   *)
(* them apart and combining the two sub-totals, gives the totals main()    *)
(* holds.                                                                  *)
(***************************************************************************)
Agg(t) ==
    <<t.total_additions, t.total_deletions, t.total_commits,
      t.first_commit_date, t.latest_commit_date>>

RECURSIVE FoldAll(_)
FoldAll(results) ==
    IF results = <<>> THEN NoTotals
    ELSE FoldStep(FoldAll(SubSeq(results, 1, Len(results) - 1)), results[Len(results)])

Perms(n) == {p \in [1..n -> 1..n] : \A i, j \in 1..n : p[i] = p[j] => i = j}

Folded == [i \in 1..totals.folded |-> Result(tasks[i])]

C7_FoldOrderIndependent ==
    \A p \in Perms(Len(Folded)) :
        LET shuffled == [i \in 1..Len(Folded) |-> Folded[p[i]]]
        IN  /\ Agg(FoldAll(shuffled)) = Agg(totals)
            /\ \A k \in 0..Len(shuffled) :
                  Agg(FoldStep(FoldAll(SubSeq(shuffled, 1, k)),
                               Agg(FoldAll(SubSeq(shuffled, k + 1, Len(shuffled))))))
                      = Agg(totals)

C7_Witness ==
    /\ totals.folded = 2
    /\ Folded[1][4] # None
    /\ Folded[2][4] # None
    /\ Folded[1][4] < Folded[2][4]
    /\ Folded[1][5] > Folded[2][5]

(***************************************************************************)
(* C8: a failed request for the summary stats or for any page of the       *)
(* repository listing ends the run in failure with a diagnosis: no         *)
(* get_commit_stats call is started and no report is produced.             *)
(***************************************************************************)
C8_ListingFailureIsFatal ==
    (IsError(summary) \/ \E k \in DOMAIN listLog : IsError(listLog[k].resp))
        => /\ pc = "failed"
           /\ diagnosis # "none"
           /\ tasks = <<>>
           /\ report = Null

C8_Witness ==
    /\ pc = "failed"
    /\ Len(listLog) = 2
    /\ IsError(listLog[2].resp)
    /\ lister.repos # <<>>

(***************************************************************************)
(* C9: a listing response that lacks an expected field (data, user,        *)
(* repositories, nodes, pageInfo) fails the run, while a commit-history    *)
(* response of that kind is absorbed and the run goes on.                  *)
(***************************************************************************)
MalformedListing(resp) ==
    /\ ~IsError(resp)
    /\ ~(/\ "data" \in DOMAIN resp.json
         /\ "user" \in DOMAIN resp.json.data
         /\ "repositories" \in DOMAIN resp.json.data.user
         /\ {"nodes", "pageInfo"} \subseteq DOMAIN resp.json.data.user.repositories)

C9_MalformedListingIsFatal ==
    /\ (\E k \in DOMAIN listLog : MalformedListing(listLog[k].resp)) => pc = "failed"
    /\ \A i \in DOMAIN tasks :
          (\E k \in DOMAIN tasks[i].log : tasks[i].log[k].resp = NoHistory)
              => pc # "failed" /\ Returned(tasks[i])

(***************************************************************************)
(* C10: a repository whose commit aggregation failed adds nothing to the   *)
(* report: the totals, the dates and the language breakdown are those of   *)
(* the run without it, while it stays in the list of repositories.         *)
(***************************************************************************)
Without(seq, k) == SubSeq(seq, 1, k - 1) \o SubSeq(seq, k + 1, Len(seq))

AggregationFailed(w) == \E k \in DOMAIN w.log : FetchFailed(w.log[k].resp)

C10_FailedRepoContributesNothing ==
    pc = "done" =>
        \A k \in DOMAIN tasks :
            AggregationFailed(tasks[k]) =>
                LET others == Without([i \in DOMAIN tasks |-> Result(tasks[i])], k)
                    stats == LanguageTally([language_stats |-> <<>>, total_lang_size |-> 0],
                                           Without(lister.repos, k))
                    expected == Report([stats |-> stats,
                                        most_popular_repo |-> tally.most_popular_repo],
                                       FoldAll(others))
                IN  /\ report = expected
                    /\ k \in DOMAIN lister.repos

(***************************************************************************)
(* C11: when the first commit-history response shows no repository, no     *)
(* default branch, no target or an empty commit list, get_commit_stats     *)
(* returns after that one request with (0, 0, 0, None, None), and no       *)
(* error is signalled.                                                     *)
(***************************************************************************)
NothingToCount(resp) ==
    /\ ~IsError(resp)
    /\ LET repository == At(At(resp.json, "data"), "repository")
           branch == At(repository, "defaultBranchRef")
           target == At(branch, "target")
       IN  \/ IsNull(repository) \/ DOMAIN repository = {}
           \/ IsNull(branch) \/ DOMAIN branch = {}
           \/ IsNull(target) \/ DOMAIN target = {}
           \/ "history" \in DOMAIN target /\ PageNodes(target.history) = <<>>

C11_NothingToCountIsIdentity ==
    \A i \in DOMAIN tasks :
        (tasks[i].log # <<>> /\ NothingToCount(tasks[i].log[1].resp))
            => /\ Returned(tasks[i])
               /\ Len(tasks[i].log) = 1
               /\ Result(tasks[i]) = Identity
               /\ pc # "failed"

C11_Witness ==
    \E i \in DOMAIN tasks :
        /\ Returned(tasks[i])
        /\ tasks[i].log[1].resp = NoDefaultBranch

(***************************************************************************)
(* C12: the most popular repository is the first one in listing order      *)
(* whose star count is the greatest of the listing; for an empty listing   *)
(* it is None and the run does not fail.                                   *)
(***************************************************************************)
Stars(i) == lister.repos[i].stargazerCount

Completed ==
    /\ pc = "done"
    /\ totals.folded = Len(lister.repos)
    /\ \A i \in DOMAIN tasks : Returned(tasks[i])

C13_ListedRunCompletes ==
    /\ (pc = "fanout") ~> Completed
    /\ <>[](Completed \/ (pc = "failed" /\ tasks = <<>>))

C13_Witness ==
    /\ Completed
    /\ Len(tasks) = 2
    /\ TransportError(tasks[2])
    /\ Len(tasks[1].log) = 2

(***************************************************************************)
(* C14: the language percentages never divide by zero: with an empty       *)
(* tally or a total language size of 0 the run still prints its report,    *)
(* and every percentage in it is 0.                                        *)
(***************************************************************************)
C14_NoZeroDivision ==
    /\ pc = "failed" => tasks = <<>>
    /\ (pc = "done" /\ tally.stats.total_lang_size = 0) =>
          /\ Len(report.languages) = Len(tally.stats.language_stats)
          /\ \A i \in DOMAIN report.languages : report.languages[i].percentage = 0

C14_Witness ==
    /\ pc = "done"
    /\ tally.stats.total_lang_size = 0
    /\ report.languages # <<>>

(***************************************************************************)
(* C15: on a failure-free chain of commit-history pages of which each      *)
(* page that reports hasNextPage = true holds at least one commit,         *)
(* get_commit_stats makes one request per page, stops at the page that     *)
(* does not report hasNextPage = true, and returns the sums of the         *)
(* additions and deletions, the number, and the earliest and latest date   *)
(* of the commits of all the pages.                                        *)
(***************************************************************************)
HasHistory(resp) ==
    /\ ~IsError(resp)
    /\ "history" \in DOMAIN At(At(At(At(resp.json, "data"), "repository"),
                                  "defaultBranchRef"), "target")

Commits(entry) == PageNodes(HistoryBody(entry.resp))

FailureFree(log) ==
    \A k \in DOMAIN log :
        /\ HasHistory(log[k].resp)
        /\ \A c \in DOMAIN Commits(log[k]) : HasDate(Commits(log[k])[c])

RECURSIVE AllCommits(_)
AllCommits(log) ==
    IF log = <<>> THEN <<>>
    ELSE AllCommits(SubSeq(log, 1, Len(log) - 1)) \o Commits(log[Len(log)])

RECURSIVE SumOf(_, _)
SumOf(commits, field) ==
    IF commits = <<>> THEN 0
    ELSE SumOf(Tail(commits), field)
           + (IF field \in DOMAIN Head(commits) THEN Head(commits)[field] ELSE 0)

Dates(commits) == {fromisoformat(commits[k].committedDate) : k \in DOMAIN commits}

Earliest(commits) ==
    IF commits = <<>> THEN None
    ELSE CHOOSE d \in Dates(commits) : \A x \in Dates(commits) : d <= x

Latest(commits) ==
    IF commits = <<>> THEN None
    ELSE CHOOSE d \in Dates(commits) : \A x \in Dates(commits) : d >= x

Summed(log) ==
    LET commits == AllCommits(log)
    IN  <<SumOf(commits, "additions"), SumOf(commits, "deletions"), Len(commits),
          Earliest(commits), Latest(commits)>>

ChainConsumed(w) ==
    /\ \A k \in 1..(Len(w.log) - 1) : ReportsMore(HistoryBody(w.log[k].resp))
    /\ (w.state = "running" /\ w.log # <<>>) =>
          ReportsMore(HistoryBody(w.log[Len(w.log)].resp))
    /\ Returned(w) =>
          /\ ~ReportsMore(HistoryBody(w.log[Len(w.log)].resp))
          /\ Result(w) = Summed(w.log)

NoEmptyPageBeforeLast(log) ==
    \A k \in DOMAIN log :
        ReportsMore(HistoryBody(log[k].resp)) => Commits(log[k]) # <<>>

C19_CountMatchesFolded ==
    \A i \in DOMAIN tasks :
        Returned(tasks[i]) =>
            /\ tasks[i].total_commits = tasks[i].summed
            /\ tasks[i].total_commits = tasks[i].dated

(***************************************************************************)
(* C16: within one pagination instance, of the repository listing or of    *)
(* one repository's commit history, the first request carries the null     *)
(* cursor, and every later request follows a response that reported        *)
(* hasNextPage = true and carries the endCursor of that response; so no    *)
(* request follows a response that does not report hasNextPage = true.     *)
(***************************************************************************)
EndCursor(body) ==
    LET pageInfo == At(body, "pageInfo")
    IN  IF "endCursor" \in DOMAIN pageInfo THEN pageInfo.endCursor ELSE NullCursor

ListChained(log) ==
    \A k \in DOMAIN log :
        IF k = 1 THEN log[k].cursor = NullCursor
        ELSE /\ ReportsMore(ListBody(log[k - 1].resp))
             /\ log[k].cursor = EndCursor(ListBody(log[k - 1].resp))

HistoryChained(log) ==
    \A k \in DOMAIN log :
        IF k = 1 THEN log[k].cursor = NullCursor
        ELSE /\ ReportsMore(HistoryBody(log[k - 1].resp))
             /\ log[k].cursor = EndCursor(HistoryBody(log[k - 1].resp))

C16_RequestsAreChained ==
    /\ ListChained(listLog)
    /\ \A i \in DOMAIN tasks : HistoryChained(tasks[i].log)
    /\ (pc = "listing" /\ listLog # <<>>) =>
          ReportsMore(ListBody(listLog[Len(listLog)].resp))
    /\ \A i \in DOMAIN tasks :
          (tasks[i].state = "running" /\ tasks[i].log # <<>>) =>
              ReportsMore(HistoryBody(tasks[i].log[Len(tasks[i].log)].resp))

C16_Witness ==
    /\ Len(listLog) = 2
    /\ listLog[2].cursor = Cursor
    /\ \E i \in DOMAIN tasks :
          /\ Returned(tasks[i])
          /\ Len(tasks[i].log) = 2
          /\ tasks[i].log[2].cursor = Cursor

(***************************************************************************)
(* C17: main's accumulators change only in main's own result loop, never   *)
(* in a step of a worker running get_commit_stats, and at every moment     *)
(* they are what folding, in listing order, the results computed from the  *)
(* responses alone gives: the totals are the same for every interleaving   *)
(* and completion order of the workers under the same responses.           *)
(***************************************************************************)
RECURSIVE Replay(_, _)
Replay(w, log) ==
    IF log = <<>> THEN w
    ELSE Replay(CommitIter(w, Head(log).resp), Tail(log))

FromResponses(i) ==
    Result(Replay(WorkItem(tasks[i].owner, tasks[i].name), tasks[i].log))

RECURSIVE FoldFirst(_)
FoldFirst(n) ==
    IF n = 0 THEN NoTotals ELSE FoldStep(FoldFirst(n - 1), FromResponses(n))

WorkerStep == tasks' # tasks

C17_OnlyMainWritesTotals ==
    /\ [](totals = FoldFirst(totals.folded))
    /\ [][WorkerStep => totals' = totals]_vars

C17_Witness ==
    /\ pc = "fanout"
    /\ overtaken
    /\ totals.folded = 1
    /\ totals.total_commits > 0
    /\ tasks[2].total_commits > 0

(***************************************************************************)
(* C20: the results are folded in listing order, one per listed            *)
(* repository, whatever the order in which the calls return: the k-th      *)
(* result folded is the one of the k-th listed repository.                 *)
(***************************************************************************)
C20_FoldedInListingOrder ==
    /\ \A k \in DOMAIN foldOrder :
          /\ foldOrder[k] = k
          /\ tasks[k].name = lister.repos[k].name
          /\ tasks[k].owner = lister.repos[k].owner.login
    /\ Len(foldOrder) <= Len(lister.repos)
    /\ pc = "done" => Len(foldOrder) = Len(lister.repos)

C20_Witness ==
    /\ pc = "done"
    /\ overtaken
    /\ foldOrder = <<1, 2>>
    /\ Result(tasks[1]) # Result(tasks[2])

(***************************************************************************)
(* C18: at every point of get_commit_stats, after each commit it folds,    *)
(* and at every point of main's fold, the earliest date is None exactly    *)
(* when the latest date is None, and otherwise earliest <= latest; so a    *)
(* coding lifespan, when the report has one, is not negative.              *)
(***************************************************************************)
DatesOrdered(earliest, latest) ==
    /\ earliest = None <=> latest = None
    /\ earliest # None => earliest <= latest

\* the dates get_commit_stats holds after each commit of each page it folded
OrderedInsideCall(w) ==
    \A k \in DOMAIN w.log :
        LET before == Replay(WorkItem(w.owner, w.name), SubSeq(w.log, 1, k - 1))
            commits == Commits(w.log[k])
        IN  \A n \in 0..Len(commits) :
                LET during == FoldCommits(before, SubSeq(commits, 1, n)).w
                IN  DatesOrdered(during.earliest_date, during.latest_date)

C18_EarliestNotAfterLatest ==
    /\ \A i \in DOMAIN tasks :
          /\ DatesOrdered(tasks[i].earliest_date, tasks[i].latest_date)
          /\ OrderedInsideCall(tasks[i])
    /\ DatesOrdered(totals.first_commit_date, totals.latest_commit_date)
    /\ (pc = "done" /\ ~IsNull(report.coding_lifespan)) =>
          report.coding_lifespan.days >= 0

C18_Witness ==
    /\ pc = "done"
    /\ ~IsNull(report.coding_lifespan)
    /\ report.coding_lifespan.days > 0
    /\ \E i \in DOMAIN tasks : tasks[i].earliest_date > totals.first_commit_date

====
